---- MODULE Spec2Model ----
(***************************************************************************)
(* MadMine: the World Builder (src/src/world/world_generator.py), the HUD  *)
(* (src/src/ui/game_ui.py), the Player (src/src/game/player_controller.py) *)
(* and the Game Loop that owns them (src/main.py).                         *)
(*                                                                         *)
(* The state is the WorldGenerator object (its block registry and its      *)
(* world_size), the engine's scene graph, reduced to the set of cube       *)
(* entity nodes currently attached to it, the MadMineGame object and its   *)
(* GameUI, and what the engine offers the callbacks: its clock, the        *)
(* player's position, the held keys.  Every public method is one action;   *)
(* the program is single-threaded, so a method runs from its first line    *)
(* to its return (or to the exception that leaves it) without any other    *)
(* method running in between.                                              *)
(*                                                                         *)
(* Python values are modelled as follows.                                  *)
(*   - a producer entry is a record with a field kind:                     *)
(*       "tuple" / "list" with items (a sequence of numbers),              *)
(*       "dict" with d (a function from its keys to their values),         *)
(*       "str" with s;                                                     *)
(*   - a Vec3 is a record [x, y, z];                                       *)
(*   - a colour is the name of the ursina colour ("green" is color.green); *)
(*   - an Entity is identified by the generate_world call that created it  *)
(*     (gen) and its creation rank inside that call (idx): two Entity      *)
(*     objects are never the same Python object.  The cubes MadMineGame    *)
(*     creates itself have gen 0;                                          *)
(*   - a coordinate of the player is a whole number of hundredths, a time  *)
(*     a whole number of clock units (ClockResolution of them a second),   *)
(*     a quotient of two of them the pair [n, d];                          *)
(*   - a Text widget is its text, kept as the record of the values that    *)
(*     were formatted into it.                                             *)
(***************************************************************************)
EXTENDS Integers, Sequences, FiniteSets, TLC

VARIABLES
    blocks,      \* WorldGenerator.blocks: the registry, a sequence of Blocks
    world_size,  \* WorldGenerator.world_size
    scene,       \* the entity nodes attached to the engine's scene graph
    calls,       \* number of generate_world calls made so far
    output,      \* what the producer of the last generate_world call returned
    last,        \* what the caller observed of the last call (see Observed)
    game,        \* MadMineGame: current_world, last_fps_update, frame_count,
                 \* current_fps
    game_ui,     \* GameUI: is_help_visible and its Text widgets
    world_ui,    \* WorldGeneratorUI: is_visible
    engine,      \* the engine: its clock, the player's position, held_keys,
                 \* whether the application runs
    event,       \* what the engine observed of the last callback it made
    player       \* Player: its controller's speed, and what the caller
                 \* observed of the last get_movement_info

world_vars == <<blocks, world_size, scene, calls, output, last>>

game_vars == <<game, game_ui, world_ui, engine, event, player>>

vars == <<world_vars, game_vars>>

---------------------------------------------------------------------------
(* Bounds of the exploration. *)

\* longest producer output enumerated entry by entry (the longer outputs
\* tried are the named ones of Scenarios)
MaxLen == 1

\* number of generate_world calls in one behaviour
MaxCalls == 2

\* the random streams tried for the default producer are seeded 0..MaxSeed
MaxSeed == 1

\* number of ticks in one behaviour, and one more for every clock unit that
\* has passed
MaxTicks == 1

\* the clock units in a second
ClockResolution == 1

\* time.time() when the game is constructed, in clock units
StartClock == 100

\* the clock units that pass in one behaviour
MaxClock == 4

---------------------------------------------------------------------------
(* Program constants. *)

\* self.world_size = 16
DefaultWorldSize == 16

\* for _ in range(20)
RandomBlockCount == 20

\* y = random.randint(1, 3)
MinHeight == 1

MaxHeight == 3

\* block_type: str = "grass"
DefaultType == "grass"

\* block_color=color.green
DefaultColor == "green"

---------------------------------------------------------------------------
(* Values. *)

Range(s) == {s[i] : i \in 1..Len(s)}

\* Vec3(*t): the three items become the x, y and z components
Vec3(t) == [x |-> t[1], y |-> t[2], z |-> t[3]]

\* Block.__init__ sets the three fields and creates the Entity `entity`
Block(position, block_type, block_color, entity) ==
    [position |-> position, block_type |-> block_type,
     color |-> block_color, entity |-> entity]

\* The entity nodes of the Blocks of a registry
EntitiesOf(bs) == {bs[i].entity : i \in 1..Len(bs)}

---------------------------------------------------------------------------
(* The producer entries and producers tried. *)

TupleEntry(t) == [kind |-> "tuple", items |-> t]

ListEntry(t) == [kind |-> "list", items |-> t]

DictEntry(d) == [kind |-> "dict", d |-> d]

StrEntry(s) == [kind |-> "str", s |-> s]

\* 3-tuples of numbers
SimpleEntries ==
    {TupleEntry(<<0, 0, 0>>), TupleEntry(<<1, 0, 0>>), TupleEntry(<<2, 0, 0>>)}

\* records with a position, with and without type and color
DetailedEntries ==
    {DictEntry([position |-> <<0, 1, 0>>]),
     DictEntry([position |-> <<0, 1, 0>>, type |-> "stone"]),
     DictEntry([position |-> <<0, 1, 0>>, color |-> "red"]),
     DictEntry([position |-> <<0, 1, 0>>, type |-> "stone", color |-> "red"])}

\* entries of neither shape: a string, a 2-tuple, a list, a record
\* without position
OtherEntries ==
    {StrEntry("garbage"), TupleEntry(<<0, 0>>), ListEntry(<<0, 0, 0>>),
     DictEntry([type |-> "stone"])}

Entries == SimpleEntries \cup DetailedEntries \cup OtherEntries

SeqsUpTo(S, n) == UNION {[1..k -> S] : k \in 0..n}

\* the scenario of three simple positions
ThreeTuples ==
    <<TupleEntry(<<0, 0, 0>>), TupleEntry(<<1, 0, 0>>), TupleEntry(<<2, 0, 0>>)>>

\* the scenario of a stone record followed by a string
StoneAndGarbage ==
    <<DictEntry([position |-> <<0, 1, 0>>, type |-> "stone"]),
      StrEntry("garbage")>>

\* every well-formed shape between entries that are skipped
MixedShapes ==
    <<StrEntry("garbage"), TupleEntry(<<1, 0, 0>>), TupleEntry(<<0, 0>>),
      DictEntry([position |-> <<0, 1, 0>>, type |-> "stone"]),
      ListEntry(<<0, 0, 0>>), DictEntry([position |-> <<0, 1, 0>>]),
      TupleEntry(<<1, 0, 0>>)>>

\* a record without position between two simple positions
RecordWithoutPositionAmid ==
    <<TupleEntry(<<0, 0, 0>>), DictEntry([type |-> "stone"]),
      TupleEntry(<<1, 0, 0>>)>>

\* a record without position before a record with one
RecordWithoutPositionFirst ==
    <<DictEntry([color |-> "red"]),
      DictEntry([position |-> <<0, 1, 0>>, color |-> "red"])>>

Scenarios ==
    {ThreeTuples, StoneAndGarbage, MixedShapes, RecordWithoutPositionAmid,
     RecordWithoutPositionFirst}

Outputs == SeqsUpTo(Entries, MaxLen) \cup Scenarios

Returns(o) == [kind |-> "returns", out |-> o]

\* generator_function given by the caller: a function that returns a list,
\* or a function that raises
Producers == {[kind |-> "raises"]} \cup {Returns(o) : o \in Outputs}

\* generator_function in the runs of the default producer: None, and two
\* of the above
DefaultRunProducers ==
    {[kind |-> "None"], [kind |-> "raises"], Returns(ThreeTuples),
     Returns(StoneAndGarbage)}

Seeds == 0..MaxSeed

\* the random streams a call of generator_function may read: only the
\* default producer draws random numbers
StreamsOf(generator_function) ==
    IF generator_function.kind = "None" THEN Seeds ELSE {0}

---------------------------------------------------------------------------
(* random: a pseudo-random stream, a function of its seed. *)

\* the generator's next state
NextRandom(s) == (s * 75) % 65537

\* the state the generator starts in when seeded with seed
SeedState(seed) == seed + 5

\* random.randint(a, b) read off the generator state s: a <= result <= b
randint(a, b, s) == a + (s % (b - a + 1))

---------------------------------------------------------------------------
(* WorldGenerator. *)

\* RandomBlocks drawing x and z with random.randint(0, self.world_size)
RECURSIVE RandomBlocks_UpToSize(_, _, _, _)
RandomBlocks_UpToSize(size, n, s, acc) ==
    IF n = 0 THEN acc
    ELSE LET s1 == NextRandom(s)
             s2 == NextRandom(s1)
             s3 == NextRandom(s2)
             x == randint(0, size, s1)
             z == randint(0, size, s2)
             y == randint(MinHeight, MaxHeight, s3)
         IN  RandomBlocks_UpToSize(size, n - 1, s3,
                                   Append(acc, TupleEntry(<<x, y, z>>)))

\* the for loop of simple_random_world over range(20), from generator
\* state s, appending to blocks
RECURSIVE RandomBlocks(_, _, _, _)
RandomBlocks(size, n, s, acc) ==
    IF n = 0 THEN acc
    ELSE LET s1 == NextRandom(s)
             s2 == NextRandom(s1)
             s3 == NextRandom(s2)
             x == randint(0, size - 1, s1)
             z == randint(0, size - 1, s2)
             y == randint(MinHeight, MaxHeight, s3)
         IN  RandomBlocks(size, n - 1, s3, Append(acc, TupleEntry(<<x, y, z>>)))

\* the ground layer: x outer, z inner, y = 0
GroundLayer(size) ==
    [k \in 1..(size * size) |->
        TupleEntry(<<(k - 1) \div size, 0, (k - 1) % size>>)]

simple_random_world(size, seed) ==
    RandomBlocks(size, RandomBlockCount, SeedState(seed), GroundLayer(size))

\* isinstance(pos_data, tuple) and len(pos_data) == 3
IsSimplePosition(pos_data) ==
    pos_data.kind = "tuple" /\ Len(pos_data.items) = 3

\* isinstance(pos_data, dict)
IsDetailedBlock(pos_data) == pos_data.kind = "dict"

\* dict.get(key, default)
Get(d, key, default) == IF key \in DOMAIN d THEN d[key] ELSE default

\* One pass of the loop body of generate_world on pos_data, in the world
\* w = [blocks, scene, exc].  Block(...) creates an Entity, which the engine
\* attaches to the scene; pos_data["position"] raises KeyError when the key
\* is missing.
AddEntry(w, pos_data, gen) ==
    LET entity == [gen |-> gen, idx |-> Len(w.blocks) + 1]
        append(block) ==
            [w EXCEPT !.blocks = Append(@, block), !.scene = @ \cup {entity}]
    IN  IF IsSimplePosition(pos_data)
        THEN append(Block(Vec3(pos_data.items), DefaultType, DefaultColor, entity))
        ELSE IF IsDetailedBlock(pos_data)
        THEN IF "position" \notin DOMAIN pos_data.d
             THEN [w EXCEPT !.exc = "KeyError"]
             ELSE append(Block(Vec3(pos_data.d["position"]),
                               Get(pos_data.d, "type", DefaultType),
                               Get(pos_data.d, "color", DefaultColor),
                               entity))
        ELSE w

\* for pos_data in block_positions: the passes over entries lo..hi in
\* order, each from the world the pass before left; an exception leaves the
\* loop.  (The range is halved so that the evaluation stays shallow.)
RECURSIVE CreateBlocks(_, _, _, _, _)
CreateBlocks(w, block_positions, lo, hi, gen) ==
    IF lo > hi \/ w.exc # "none"
    THEN w
    ELSE IF lo = hi
    THEN AddEntry(w, block_positions[lo], gen)
    ELSE LET mid == (lo + hi) \div 2
             first == CreateBlocks(w, block_positions, lo, mid, gen)
         IN  CreateBlocks(first, block_positions, mid + 1, hi, gen)

\* the nodes clear_world removes: block.entity.removeNode() for every
\* block of the registry whose node is not empty
RemovedNodes(w) == {e \in EntitiesOf(w.blocks) : e \in w.scene}

\* clear_world that empties the registry without removeNode()
ClearWorld_KeepsNodes(w) == [w EXCEPT !.blocks = <<>>]

\* clear_world that removes the nodes without self.blocks.clear()
ClearWorld_KeepsRegistry(w) == [w EXCEPT !.scene = @ \ RemovedNodes(w)]

\* clear_world that removes each block from the list it is iterating over,
\* which skips every second block
ClearWorld_RemovesWhileIterating(w) ==
    LET odd == {i \in 1..Len(w.blocks) : i % 2 = 1}
    IN  [w EXCEPT !.scene = @ \ {w.blocks[i].entity : i \in odd},
                  !.blocks = [k \in 1..(Len(w.blocks) \div 2) |-> w.blocks[2 * k]]]

\* clear_world on the world w
ClearWorld(w) ==
    [w EXCEPT !.scene = @ \ RemovedNodes(w), !.blocks = <<>>]

\* generator_function(), with generator_function = self.simple_random_world
\* when it is None: [exc, out]
CallProducer(generator_function, size, seed) ==
    IF generator_function.kind = "None"
    THEN [exc |-> "none", out |-> simple_random_world(size, seed)]
    ELSE IF generator_function.kind = "raises"
    THEN [exc |-> "ProducerError", out |-> <<>>]
    ELSE [exc |-> "none", out |-> generator_function.out]

\* generate_world that creates the blocks first and clears the world that
\* was there when it has them
GenerateWorldFrom_ClearsLate(w, generator_function, size, seed, gen) ==
    LET produced == CallProducer(generator_function, size, seed)
        built == IF produced.exc # "none"
                 THEN [w EXCEPT !.exc = produced.exc]
                 ELSE CreateBlocks(w, produced.out, 1, Len(produced.out), gen)
        cleared == IF built.exc # "none" THEN built
                   ELSE [built EXCEPT
                           !.scene = @ \ RemovedNodes(w),
                           !.blocks = SubSeq(@, Len(w.blocks) + 1, Len(@))]
    IN  [blocks |-> cleared.blocks, scene |-> cleared.scene,
         exc |-> cleared.exc, out |-> produced.out]

\* the body of generate_world from the world w: clear, call the producer,
\* create the blocks: [blocks, scene, exc, out]
GenerateWorldFrom(w, generator_function, size, seed, gen) ==
    LET cleared == ClearWorld(w)
        produced == CallProducer(generator_function, size, seed)
        built == IF produced.exc # "none"
                 THEN [cleared EXCEPT !.exc = produced.exc]
                 ELSE CreateBlocks(cleared, produced.out, 1, Len(produced.out), gen)
    IN  [blocks |-> built.blocks, scene |-> built.scene,
         exc |-> built.exc, out |-> produced.out]

\* list(set(block.block_type for block in self.blocks))
BlockTypes(bs) == {bs[i].block_type : i \in 1..Len(bs)}

\* the orders in which list(set) may list the members of S
ListsOf(S) ==
    {f \in [1..Cardinality(S) -> S] : \A i, j \in DOMAIN f : f[i] = f[j] => i = j}

\* get_world_info that counts the block types, not the blocks
WorldInfo_CountsTypes(bs, size, types) ==
    [total_blocks |-> Len(types), world_size |-> size, block_types |-> types]

\* the dict get_world_info returns, its block_types listed in order types
WorldInfo(bs, size, types) ==
    [total_blocks |-> Len(bs), world_size |-> size, block_types |-> types]

\* no dict was returned by the last call
NoInfo == [total_blocks |-> -1, world_size |-> -1, block_types |-> <<>>]

\* What the caller saw of a call: the method, the kind of argument it was
\* given, the method called before it, the exception that left it ("none":
\* it returned), the number of removeNode() calls it made, the dict it
\* returned.
Observed(op, arg, exc, detached, info) ==
    [op |-> op, arg |-> arg, prev |-> last.op, exc |-> exc,
     detached |-> detached, info |-> info]

World == [blocks |-> blocks, scene |-> scene, exc |-> "none"]

---------------------------------------------------------------------------
(* The builtin producers (world_generator.py, the example functions). *)

\* for x in range(10): for z in range(10)
FlatSize == 10

\* for y in range(5); size = 5 - y
PyramidLayers == 5

\* for x in range(8): for z in range(8)
CheckerSize == 8

\* flat_world(): the tuples (x, 0, z), x outer, z inner
flat_world ==
    [k \in 1..(FlatSize * FlatSize) |->
        TupleEntry(<<(k - 1) \div FlatSize, 0, (k - 1) % FlatSize>>)]

\* [color.red, color.blue, color.green, color.yellow, color.orange][y]
LayerColor(y) == <<"red", "blue", "green", "yellow", "orange">>[y + 1]

\* f"pyramid_layer_{y}"
LayerType(y) ==
    <<"pyramid_layer_0", "pyramid_layer_1", "pyramid_layer_2",
      "pyramid_layer_3", "pyramid_layer_4">>[y + 1]

\* the records pyramid_world appends for layer y, x outer, z inner
PyramidLayer(y) ==
    LET size == PyramidLayers - y
    IN  [k \in 1..(size * size) |->
            DictEntry([position |-> <<((k - 1) \div size) + y, y,
                                      ((k - 1) % size) + y>>,
                       color |-> LayerColor(y),
                       type |-> LayerType(y)])]

\* the layers from y upwards, in order
RECURSIVE PyramidFrom(_)
PyramidFrom(y) ==
    IF y >= PyramidLayers THEN <<>> ELSE PyramidLayer(y) \o PyramidFrom(y + 1)

pyramid_world == PyramidFrom(0)

checkerboard_world ==
    [k \in 1..(CheckerSize * CheckerSize) |->
        LET x == (k - 1) \div CheckerSize
            z == (k - 1) % CheckerSize
        IN  DictEntry([position |-> <<x, 0, z>>,
                       color |-> IF (x + z) % 2 = 0 THEN "white" ELSE "black",
                       type |-> "checkerboard"])]

---------------------------------------------------------------------------
(* Numbers and their formatting. *)

\* the integer nearest to n / d (d > 0), the even one of two equally near:
\* what the format specs .0f and .1f print of a binary float that holds
\* n / d exactly or is not half way between two printable values
RoundHalfEven(n, d) ==
    LET q == n \div d
        r == n % d
    IN  IF 2 * r < d THEN q
        ELSE IF 2 * r > d THEN q + 1
        ELSE IF q % 2 = 0 THEN q ELSE q + 1

\* f"{v:.1f}" of the coordinate v, given in hundredths: the tenths printed
OneDecimal(hundredths) == RoundHalfEven(hundredths, 10)

\* f"{fps:.0f}" of the quotient fps = [n, d]
NoDecimal(fps) == RoundHalfEven(fps.n, fps.d)

---------------------------------------------------------------------------
(* GameUI and WorldGeneratorUI (game_ui.py). *)

\* the Text widgets as setup_ui creates them: "MadMine - Loading...",
\* "Position: (0, 0, 0)", "Blocks: 0", the help text with visible=False,
\* the welcome text, "FPS: --"; show_message has created no Text yet
NewGameUI ==
    [is_help_visible |-> FALSE,
     info_panel |-> "MadMine - Loading...",
     position_text |-> [decimals |-> 0, x |-> 0, y |-> 0, z |-> 0, mark |-> ""],
     world_info |-> [parts |-> 1, block_count |-> 0, world_size |-> 0],
     help_text_visible |-> FALSE,
     welcome_visible |-> TRUE,
     fps |-> [measured |-> FALSE, value |-> 0],
     messages |-> <<>>]

\* update_player_info that looks at is_moving before is_running
update_player_info_MovingFirst(ui, position, is_moving, is_running) ==
    [ui EXCEPT !.position_text =
        [decimals |-> 1,
         x |-> OneDecimal(position.x),
         y |-> OneDecimal(position.y),
         z |-> OneDecimal(position.z),
         mark |-> IF is_moving THEN "walking"
                  ELSE IF is_running THEN "running" ELSE ""]]

\* update_player_info: f"Position: ({x:.1f}, {y:.1f}, {z:.1f})", then the
\* running mark if is_running, elif is_moving the walking mark
update_player_info(ui, position, is_moving, is_running) ==
    [ui EXCEPT !.position_text =
        [decimals |-> 1,
         x |-> OneDecimal(position.x),
         y |-> OneDecimal(position.y),
         z |-> OneDecimal(position.z),
         mark |-> IF is_running THEN "running"
                  ELSE IF is_moving THEN "walking" ELSE ""]]

\* update_world_info: f"Blocks: {block_count} | Size: {world_size}x{world_size}"
update_world_info(ui, world_data) ==
    [ui EXCEPT !.world_info =
        [parts |-> 2,
         block_count |-> world_data.total_blocks,
         world_size |-> world_data.world_size]]

\* update_fps: f"FPS: {fps:.0f}"
update_fps(ui, fps) ==
    [ui EXCEPT !.fps = [measured |-> TRUE, value |-> NoDecimal(fps)]]

\* toggle_help that shows the help text and never hides it
toggle_help_ShowsOnly(ui) ==
    [ui EXCEPT !.is_help_visible = TRUE, !.help_text_visible = TRUE]

\* toggle_help: the flag is negated and copied into the widget
toggle_help(ui) ==
    [ui EXCEPT !.is_help_visible = ~@,
               !.help_text_visible = ~ui.is_help_visible]

\* show_message's default duration, in seconds
MessageDuration == 3

\* show_message: a new Text is created; nothing removes it
show_message(ui, message) ==
    [ui EXCEPT !.messages = Append(@, message)]

\* hide_welcome_message that hides nothing
hide_welcome_message_Skips(ui) == ui

\* hide_welcome_message
hide_welcome_message(ui) == [ui EXCEPT !.welcome_visible = FALSE]

\* update_main_title: the text of the info panel names the world
update_main_title(ui, world_name) == [ui EXCEPT !.info_panel = world_name]

\* WorldGeneratorUI(): the menu is not shown
NewWorldUI == [is_visible |-> FALSE]

\* toggle_menu
toggle_menu(wui) == [wui EXCEPT !.is_visible = ~@]

---------------------------------------------------------------------------
(* The engine, as the callbacks of the game read it. *)

\* held_keys as the dict d of the keys the engine has seen (1: held, 0:
\* released)
HeldKeys(d) == [kind |-> "dict", d |-> d]

\* held_keys when it is None, when it is an object without get(), and when
\* the name is not bound
HeldKeysNone == [kind |-> "None"]

HeldKeysNoGet == [kind |-> "no get"]

HeldKeysUnbound == [kind |-> "unbound"]

\* no key seen yet: the empty dict
NoKeys == HeldKeys([k \in {} |-> 0])

\* the values of held_keys tried
HeldKeysTried ==
    {NoKeys,
     HeldKeys("w" :> 1),
     HeldKeys("w" :> 0 @@ "left shift" :> 1),
     HeldKeys("d" :> 1 @@ "right shift" :> 1),
     HeldKeysNone, HeldKeysNoGet, HeldKeysUnbound}

\* the position of a FirstPersonController() right after its creation
\* (main.py: "let it use default Vec3(0, 0.5, 0)"), in hundredths
DefaultPosition == Vec3(<<0, 50, 0>>)

\* the positions of the player tried: (0, 0.5, 0), (1.25, 2, -3.07)
Positions == {DefaultPosition, Vec3(<<125, 200, -307>>)}

\* camera.forward
Forward == Vec3(<<1, 0, 0>>)

\* the engine when the game has been constructed
NewEngine ==
    [clock |-> StartClock, position |-> DefaultPosition, held_keys |-> NoKeys,
     running |-> TRUE]

\* bool(x) of the held_keys object x
Truthy(held_keys) ==
    IF held_keys.kind = "None" THEN FALSE
    ELSE IF held_keys.kind = "dict" THEN DOMAIN held_keys.d # {}
    ELSE TRUE

\* any(held_keys.get(k, False) for k in keys), held_keys a dict
AnyHeld(held_keys, keys) == \E k \in keys : Get(held_keys.d, k, 0) # 0

MoveKeys == {"w", "a", "s", "d"}

ShiftKeys == {"left shift", "right shift"}

\* the exception that evaluating `held_keys and f(held_keys.get(...))`
\* raises: NameError for the unbound name, AttributeError for the object
\* without get(); None and the empty dict end the evaluation at `and`
HeldKeysError(held_keys) ==
    IF held_keys.kind = "unbound" THEN "NameError"
    ELSE IF held_keys.kind = "no get" THEN "AttributeError"
    ELSE "none"

\* bool(held_keys and any(... for k in keys)) when it raises nothing
Held(held_keys, keys) ==
    Truthy(held_keys) /\ held_keys.kind = "dict" /\ AnyHeld(held_keys, keys)

---------------------------------------------------------------------------
(* Player (player_controller.py). *)

\* self.normal_speed = 5
NormalSpeed == 5

\* self.run_speed = 8
RunSpeed == 8

\* Vec3(0, 2, 0), the default start_position, in hundredths
StartPosition == Vec3(<<0, 200, 0>>)

\* Player(): the controller is created with speed=5; no
\* get_movement_info yet
NewPlayer ==
    [speed |-> NormalSpeed,
     op |-> "__init__", exc |-> "none", fault |-> "none",
     info |-> [position |-> Vec3(<<0, 0, 0>>), is_moving |-> FALSE,
               is_running |-> FALSE, speed |-> 0,
               looking_direction |-> Vec3(<<0, 0, 0>>)]]

\* a try block: [exc, value]
Returned_(value) == [exc |-> "none", value |-> value]

Raised(exc) == [exc |-> exc, value |-> FALSE]

\* the handler `except (AttributeError, KeyError): return False`
ExceptAttributeOrKey(r) ==
    IF r.exc \in {"AttributeError", "KeyError"} THEN Returned_(FALSE) ELSE r

\* is_moving(): False if not held_keys, else any() of the four movement
\* keys
is_moving(held_keys) ==
    ExceptAttributeOrKey(
        IF held_keys.kind = "unbound" THEN Raised("NameError")
        ELSE IF ~Truthy(held_keys) THEN Returned_(FALSE)
        ELSE IF held_keys.kind = "no get" THEN Raised("AttributeError")
        ELSE Returned_(AnyHeld(held_keys, MoveKeys)))

\* is_running(): False if not held_keys, else left shift or right shift
\* (the value of the dict, 0 or 1, which equals False or True)
is_running(held_keys) ==
    ExceptAttributeOrKey(
        IF held_keys.kind = "unbound" THEN Raised("NameError")
        ELSE IF ~Truthy(held_keys) THEN Returned_(FALSE)
        ELSE IF held_keys.kind = "no get" THEN Raised("AttributeError")
        ELSE Returned_(AnyHeld(held_keys, ShiftKeys)))

\* the dict of the safe defaults
SafeDefaults ==
    [position |-> Vec3(<<0, 0, 0>>), is_moving |-> FALSE, is_running |-> FALSE,
     speed |-> NormalSpeed, looking_direction |-> Vec3(<<0, 0, 1>>)]

\* get_movement_info without its except clause: [exc, value]
MovementInfo_NoHandler(eng, speed, fault) ==
    LET moving == is_moving(eng.held_keys)
        running == is_running(eng.held_keys)
    IN  IF fault = "position" THEN Raised("AttributeError")
        ELSE IF moving.exc # "none" THEN [moving EXCEPT !.value = SafeDefaults]
        ELSE IF running.exc # "none" THEN [running EXCEPT !.value = SafeDefaults]
        ELSE IF fault = "camera" THEN Raised("AttributeError")
        ELSE Returned_([position |-> eng.position,
                        is_moving |-> moving.value,
                        is_running |-> running.value,
                        speed |-> speed,
                        looking_direction |-> Forward])

\* get_movement_info(): the dict of the five reads, the safe defaults when
\* one of them raises (fault: the read that fails, "none" for none):
\* [exc, value]
MovementInfo(eng, speed, fault) ==
    LET moving == is_moving(eng.held_keys)
        running == is_running(eng.held_keys)
    IN  IF \/ fault \in {"position", "camera"}
           \/ moving.exc # "none"
           \/ running.exc # "none"
        THEN Returned_(SafeDefaults)
        ELSE Returned_([position |-> eng.position,
                        is_moving |-> moving.value,
                        is_running |-> running.value,
                        speed |-> speed,
                        looking_direction |-> Forward])

\* the reads of get_movement_info that may fail
PlayerFaults == {"none", "position", "camera"}

---------------------------------------------------------------------------
(* MadMineGame (main.py). *)

\* for x in range(10): for z in range(10): Entity(model='cube', ...)
StartupSize == 10

\* the cubes __init__ creates itself, without the WorldGenerator
StartupCubes == {[gen |-> 0, idx |-> k] : k \in 1..(StartupSize * StartupSize)}

\* reading an attribute that no statement has assigned yet raises
\* AttributeError
NoAttribute == "<no attribute>"

\* Python's None
None == "<None>"

\* MadMineGame(): __init__ assigns last_fps_update, frame_count and
\* current_fps, and does not assign current_world
NewGame ==
    [current_world |-> NoAttribute, last_fps_update |-> 0, frame_count |-> 0,
     current_fps |-> [n |-> 0, d |-> 1]]

\* no callback made yet
NoEvent ==
    [kind |-> "__init__", key |-> "", exc |-> "none", caught |-> "none",
     ticks |-> 0, odd_toggles |-> FALSE, shown_at |-> <<>>,
     since |-> [tick |-> 0, clock |-> StartClock]]

\* the objects the constructors leave
Constructed ==
    /\ game = NewGame
    /\ game_ui = NewGameUI
    /\ world_ui = NewWorldUI
    /\ engine = NewEngine
    /\ event = NoEvent
    /\ player = NewPlayer

\* reload_world: the producer chosen for generator_name, flat_world for
\* every name that is not one of the three compared with
GeneratorOf(generator_name) ==
    IF generator_name = "flat" THEN flat_world
    ELSE IF generator_name = "pyramid" THEN pyramid_world
    ELSE IF generator_name = "checkerboard" THEN checkerboard_world
    ELSE flat_world

\* reload_world: world_name
WorldNameOf(generator_name) ==
    IF generator_name = "flat" THEN "Flat World"
    ELSE IF generator_name = "pyramid" THEN "Pyramid World"
    ELSE IF generator_name = "checkerboard" THEN "Checkerboard World"
    ELSE "Flat World (Default)"

\* f"{world_name} loaded!"
LoadedMessage(world_name) == <<world_name, "loaded!">>

\* reload_world that leaves current_world without a value
RecordedWorld_Unassigned(generator_name) == NoAttribute

\* reload_world that records "random" whatever it has loaded
RecordedWorld_AlwaysRandom(generator_name) == "random"

\* generator_name or "random"
RecordedWorld(generator_name) ==
    IF generator_name \in {None, ""} THEN "random" ELSE generator_name

\* the widgets after the three GameUI calls of reload_world
ReloadedUI(ui, generator_name) ==
    LET world_name == WorldNameOf(generator_name)
    IN  hide_welcome_message(
            show_message(update_main_title(ui, world_name),
                         LoadedMessage(world_name)))

\* one of the orders in which list(set) may list the members of S
RECURSIVE AList(_)
AList(S) ==
    IF S = {} THEN <<>>
    ELSE LET x == CHOOSE x \in S : TRUE IN <<x>> \o AList(S \ {x})

\* The try statement of update() on the widgets ui: [ui, caught], caught
\* the exception `except Exception` swallows ("none": none was raised).
\* fault names what fails in this tick: "player" (self.player.position
\* raises AttributeError), "position_text" or "world_text" (the setter of
\* the Text raises), "fps_text", "none".  What fails fails again when the
\* handler of the inner try repeats it.
UpdateHud(ui, eng, bs, size, fault) ==
    LET held_keys == eng.held_keys
        first == IF fault = "player" THEN "AttributeError"
                 ELSE IF HeldKeysError(held_keys) # "none"
                 THEN HeldKeysError(held_keys)
                 ELSE IF fault = "position_text" THEN "TextError"
                 ELSE "none"
        again == IF fault = "player" THEN "AttributeError"
                 ELSE IF fault = "position_text" THEN "TextError"
                 ELSE "none"
        inner == IF first = "none"
                 THEN [ui |-> update_player_info(ui, eng.position,
                                                 Held(held_keys, MoveKeys),
                                                 Held(held_keys, ShiftKeys)),
                       caught |-> "none"]
                 ELSE IF first \in {"AttributeError", "KeyError"}
                 THEN IF again = "none"
                      THEN [ui |-> update_player_info(ui, eng.position,
                                                      FALSE, FALSE),
                            caught |-> "none"]
                      ELSE [ui |-> ui, caught |-> again]
                 ELSE [ui |-> ui, caught |-> first]
        world_info == WorldInfo(bs, size, AList(BlockTypes(bs)))
    IN  IF inner.caught # "none" THEN inner
        ELSE IF fault = "world_text" THEN [ui |-> inner.ui, caught |-> "TextError"]
        ELSE [ui |-> update_world_info(inner.ui, world_info), caught |-> "none"]

\* The FPS counter of update() at time current_time: [game, ui, exc,
\* refreshed], exc the exception that leaves update(), refreshed whether the
\* FPS text was set.
UpdateFps(g, ui, current_time, fault) ==
    LET frame_count == g.frame_count + 1
        elapsed == current_time - g.last_fps_update
        current_fps == [n |-> frame_count * ClockResolution, d |-> elapsed]
    IN  IF elapsed >= ClockResolution
        THEN IF fault = "fps_text"
             THEN [game |-> [g EXCEPT !.frame_count = frame_count,
                                      !.current_fps = current_fps],
                   ui |-> ui, exc |-> "TextError", refreshed |-> FALSE]
             ELSE [game |-> [g EXCEPT !.frame_count = 0,
                                      !.current_fps = current_fps,
                                      !.last_fps_update = current_time],
                   ui |-> update_fps(ui, current_fps), exc |-> "none",
                   refreshed |-> TRUE]
        ELSE [game |-> [g EXCEPT !.frame_count = frame_count],
              ui |-> ui, exc |-> "none", refreshed |-> FALSE]

\* what may fail in a tick
Faults == {"none", "player", "position_text", "world_text", "fps_text"}

---------------------------------------------------------------------------
(* The state machine. *)

\* WorldGenerator(): an empty registry, world_size 16; nothing in the scene
Init ==
    /\ blocks = <<>>
    /\ world_size = DefaultWorldSize
    /\ scene = {}
    /\ calls = 0
    /\ output = <<>>
    /\ last = [op |-> "__init__", arg |-> "", prev |-> "", exc |-> "none",
               detached |-> 0, info |-> NoInfo]
    /\ Constructed

\* self.world_generator.generate_world(generator_function), as its caller
\* and the scene see it
GenerateWorldCall(generator_function, seed) ==
    /\ calls < MaxCalls
    /\ LET r == GenerateWorldFrom(World, generator_function, world_size,
                                  seed, calls + 1)
       IN  /\ blocks' = r.blocks
           /\ scene' = r.scene
           /\ output' = r.out
           /\ last' = Observed("generate_world", generator_function.kind, r.exc,
                               Cardinality(RemovedNodes(World)), NoInfo)
    /\ calls' = calls + 1
    /\ UNCHANGED world_size

generate_world(generator_function, seed) ==
    /\ GenerateWorldCall(generator_function, seed)
    /\ UNCHANGED game_vars

clear_world ==
    /\ LET r == ClearWorld(World)
       IN  /\ blocks' = r.blocks
           /\ scene' = r.scene
    /\ last' = Observed("clear_world", "", "none",
                        Cardinality(RemovedNodes(World)), NoInfo)
    /\ UNCHANGED <<world_size, calls, output>>
    /\ UNCHANGED game_vars

get_world_info ==
    /\ \E types \in ListsOf(BlockTypes(blocks)) :
           last' = Observed("get_world_info", "", "none", 0,
                            WorldInfo(blocks, world_size, types))
    /\ UNCHANGED <<blocks, world_size, scene, calls, output>>
    /\ UNCHANGED game_vars

\* the calls a user of the WorldGenerator makes, with producers of its own
Next ==
    \/ \E p \in Producers : \E seed \in StreamsOf(p) : generate_world(p, seed)
    \/ clear_world
    \/ get_world_info

Spec == Init /\ [][Next]_vars

\* the same calls with the default producer (debug_test.py, step 9)
NextDefault ==
    \/ \E p \in DefaultRunProducers :
           \E seed \in StreamsOf(p) : generate_world(p, seed)
    \/ clear_world
    \/ get_world_info

SpecDefault == Init /\ [][NextDefault]_vars

---------------------------------------------------------------------------
(* The game: the callbacks the engine makes, and the engine between them. *)

\* MadMineGame() and the engine at its first callback: an empty registry,
\* the cubes of __init__ in the scene
InitGame ==
    /\ blocks = <<>>
    /\ world_size = DefaultWorldSize
    /\ scene = StartupCubes
    /\ calls = 0
    /\ output = <<>>
    /\ last = [op |-> "__init__", arg |-> "", prev |-> "", exc |-> "none",
               detached |-> 0, info |-> NoInfo]
    /\ Constructed

\* what the engine sees of input(key): the exception that left it
KeyEvent(key, exc) ==
    [event EXCEPT !.kind = "input", !.key = key, !.exc = exc,
                  !.caught = "none"]

\* an exception that leaves a callback leaves app.run() too: main() prints
\* it and the process ends
AfterCallback(eng, exc) ==
    IF exc = "none" THEN eng ELSE [eng EXCEPT !.running = FALSE]

\* reload_world(generator_name), called by input(key)
reload_world(key, generator_name) ==
    /\ GenerateWorldCall(Returns(GeneratorOf(generator_name)), 0)
    /\ IF last'.exc = "none"
       THEN /\ game_ui' = ReloadedUI(game_ui, generator_name)
            /\ game' = [game EXCEPT
                          !.current_world = RecordedWorld(generator_name)]
       ELSE UNCHANGED <<game_ui, game>>
    /\ event' = [KeyEvent(key, last'.exc) EXCEPT
                   !.shown_at = IF last'.exc = "none"
                                THEN Append(@, engine.clock) ELSE @]
    /\ engine' = AfterCallback(engine, last'.exc)
    /\ UNCHANGED <<world_ui, player>>

\* input(key)
input(key) ==
    /\ engine.running
    /\ IF key = "h"
       THEN /\ game_ui' = toggle_help(game_ui)
            /\ event' = [KeyEvent(key, "none") EXCEPT !.odd_toggles = ~@]
            /\ UNCHANGED <<world_vars, game, world_ui, engine, player>>
       ELSE IF key = "r"
       THEN IF game.current_world = NoAttribute
            THEN /\ event' = KeyEvent(key, "AttributeError")
                 /\ engine' = AfterCallback(engine, "AttributeError")
                 /\ UNCHANGED <<world_vars, game, game_ui, world_ui, player>>
            ELSE reload_world(key, game.current_world)
       ELSE IF key = "1" THEN reload_world(key, "flat")
       ELSE IF key = "2" THEN reload_world(key, "pyramid")
       ELSE IF key = "3" THEN reload_world(key, "checkerboard")
       ELSE IF key = "4" THEN reload_world(key, "random")
       ELSE IF key = "g"
       THEN /\ world_ui' = toggle_menu(world_ui)
            /\ event' = KeyEvent(key, "none")
            /\ UNCHANGED <<world_vars, game, game_ui, engine, player>>
       ELSE IF key = "escape"
       THEN /\ engine' = [engine EXCEPT !.running = FALSE]
            /\ event' = KeyEvent(key, "none")
            /\ UNCHANGED <<world_vars, game, game_ui, world_ui, player>>
       ELSE /\ event' = KeyEvent(key, "none")
            /\ UNCHANGED <<world_vars, game, game_ui, world_ui, engine, player>>

\* update(): one tick, in which `fault` fails
update(fault) ==
    /\ engine.running
    /\ event.ticks < MaxTicks + (engine.clock - StartClock)
    /\ LET hud == UpdateHud(game_ui, engine, blocks, world_size, fault)
           fps == UpdateFps(game, hud.ui, engine.clock, fault)
       IN  /\ game_ui' = fps.ui
           /\ game' = fps.game
           /\ event' = [event EXCEPT !.kind = "update", !.key = "",
                                     !.exc = fps.exc, !.caught = hud.caught,
                                     !.ticks = @ + 1,
                                     !.since = IF fps.refreshed
                                               THEN [tick |-> event.ticks + 1,
                                                     clock |-> engine.clock]
                                               ELSE @]
           /\ engine' = AfterCallback(engine, fps.exc)
    /\ UNCHANGED <<world_vars, world_ui, player>>

\* time.time() grows by one clock unit
ClockAdvances ==
    /\ engine.running
    /\ engine.clock < StartClock + MaxClock
    /\ engine' = [engine EXCEPT !.clock = @ + 1]
    /\ UNCHANGED <<world_vars, game, game_ui, world_ui, event, player>>

\* the controller moves the player to position
PlayerMoves(position) ==
    /\ engine.running
    /\ position # engine.position
    /\ engine' = [engine EXCEPT !.position = position]
    /\ UNCHANGED <<world_vars, game, game_ui, world_ui, event, player>>

\* held_keys becomes held_keys_now
KeysChange(held_keys_now) ==
    /\ engine.running
    /\ held_keys_now # engine.held_keys
    /\ engine' = [engine EXCEPT !.held_keys = held_keys_now]
    /\ UNCHANGED <<world_vars, game, game_ui, world_ui, event, player>>

\* the keys pressed: those input() compares with, and one more
Keys == {"h", "r", "1", "2", "3", "4", "g", "escape", "x"}

\* the key events and the ticks of a game in which nothing fails, the
\* player stands still, no key is held, and less than a clock unit passes
NextGame ==
    \/ \E key \in Keys : input(key)
    \/ update("none")

SpecGame == InitGame /\ [][NextGame]_vars

\* the keys pressed in the runs of SpecFrame
FrameKeys == {"2", "r"}

\* the ticks of a game, with what the engine gives them to read and what
\* may fail in them, while less than a clock unit passes
NextFrame ==
    \/ \E fault \in Faults : update(fault)
    \/ \E position \in Positions : PlayerMoves(position)
    \/ \E held_keys_now \in HeldKeysTried : KeysChange(held_keys_now)
    \/ \E key \in FrameKeys : input(key)

SpecFrame == InitGame /\ [][NextFrame]_vars

\* the ticks of a game and the time that passes between them
NextClock ==
    \/ \E fault \in {"none", "fps_text"} : update(fault)
    \/ ClockAdvances

SpecClock == InitGame /\ [][NextClock]_vars

\* the keys that load a world while the clock runs
MessageKeys == {"1"}

\* the ticks of a game, the time that passes between them and the worlds
\* loaded meanwhile
NextMessages ==
    \/ \E key \in MessageKeys : input(key)
    \/ update("none")
    \/ ClockAdvances

SpecMessages == InitGame /\ [][NextMessages]_vars

---------------------------------------------------------------------------
(* The Player, called as debug_test.py calls it. *)

\* Player(): the controller stands at start_position
InitPlayer ==
    /\ blocks = <<>>
    /\ world_size = DefaultWorldSize
    /\ scene = {}
    /\ calls = 0
    /\ output = <<>>
    /\ last = [op |-> "__init__", arg |-> "", prev |-> "", exc |-> "none",
               detached |-> 0, info |-> NoInfo]
    /\ game = NewGame
    /\ game_ui = NewGameUI
    /\ world_ui = NewWorldUI
    /\ engine = [NewEngine EXCEPT !.position = StartPosition]
    /\ event = NoEvent
    /\ player = NewPlayer

\* get_movement_info(), in which the read `fault` fails
get_movement_info(fault) ==
    /\ LET r == MovementInfo(engine, player.speed, fault)
       IN  player' = [player EXCEPT !.op = "get_movement_info",
                                    !.exc = r.exc, !.fault = fault,
                                    !.info = r.value]
    /\ UNCHANGED <<world_vars, game, game_ui, world_ui, engine, event>>

\* Player.update(): the controller runs while a shift key is held, and
\* walks when held_keys has no get()
Player_update ==
    /\ LET raised == HeldKeysError(engine.held_keys)
           exc == IF raised \in {"AttributeError", "KeyError"} THEN "none"
                  ELSE raised
       IN  player' = [player EXCEPT
                        !.op = "update", !.exc = exc, !.fault = "none",
                        !.speed = IF exc # "none" THEN @
                                  ELSE IF raised # "none" THEN NormalSpeed
                                  ELSE IF Held(engine.held_keys, ShiftKeys)
                                  THEN RunSpeed
                                  ELSE NormalSpeed]
    /\ UNCHANGED <<world_vars, game, game_ui, world_ui, engine, event>>

NextPlayer ==
    \/ \E fault \in PlayerFaults : get_movement_info(fault)
    \/ Player_update
    \/ \E position \in Positions : PlayerMoves(position)
    \/ \E held_keys_now \in HeldKeysTried : KeysChange(held_keys_now)

SpecPlayer == InitPlayer /\ [][NextPlayer]_vars

---------------------------------------------------------------------------
(* The contract's words for producer entries and calls. *)

\* a 3-element tuple
IsTriple(e) == e.kind = "tuple" /\ Len(e.items) = 3

\* a record containing a position key
HasPosition(e) == e.kind = "dict" /\ "position" \in DOMAIN e.d

WellFormed(e) == IsTriple(e) \/ HasPosition(e)

\* the number of well-formed entries among the first i of out
WellFormedUpTo(out, i) == Cardinality({j \in 1..i : WellFormed(out[j])})

\* the last call was generate_world and its producer returned a list
Produced == last.op = "generate_world" /\ last.exc # "ProducerError"

\* the last call was generate_world and it returned
Returned == last.op = "generate_world" /\ last.exc = "none"

\* the registry holds one Block per well-formed entry of the output
OneBlockPerWellFormedEntry ==
    Len(blocks) = WellFormedUpTo(output, Len(output))

\* the Block made from entry i of the output is the one of the same rank
\* among the well-formed entries; it is at position pos, of type t and
\* colour c, and its entity is in the scene
BlockOfEntry(i, pos, t, c) ==
    LET k == WellFormedUpTo(output, i)
    IN  /\ k <= Len(blocks)
        /\ blocks[k].position = [x |-> pos[1], y |-> pos[2], z |-> pos[3]]
        /\ blocks[k].block_type = t
        /\ blocks[k].color = c
        /\ blocks[k].entity \in scene

SimplePositionsBuilt ==
    /\ Len(blocks) <= WellFormedUpTo(output, Len(output))
    /\ \A i \in 1..Len(output) :
           IsTriple(output[i]) =>
               BlockOfEntry(i, output[i].items, "grass", "green")

RecordsBuilt ==
    /\ Len(blocks) <= WellFormedUpTo(output, Len(output))
    /\ \A i \in 1..Len(output) :
           HasPosition(output[i]) =>
               LET d == output[i].d
               IN  BlockOfEntry(i, d.position,
                                IF "type" \in DOMAIN d THEN d.type ELSE "grass",
                                IF "color" \in DOMAIN d THEN d.color ELSE "green")

---------------------------------------------------------------------------
(* Claims. *)

\* C1: whatever list the producer returns, every entry that is neither a
\* 3-element tuple nor a record with a position key is left out of the
\* registry, and the call does not raise because of it.
C1_OtherEntriesSkipped ==
    Produced => (last.exc = "none" /\ OneBlockPerWellFormedEntry)

\* The same of the calls that return (every record of the output has a
\* position key): it holds in every reachable state.
OtherEntriesSkippedWhenReturned ==
    Returned => OneBlockPerWellFormedEntry

\* C2: every 3-tuple of numbers in the producer output yields exactly one
\* Block, at that position, of type "grass" and of the default green.
C2_SimplePositionsBecomeGrass == Produced => SimplePositionsBuilt

\* The same of the calls that return: it holds in every reachable state.
SimplePositionsWhenReturned == Returned => SimplePositionsBuilt

\* C3: every record with a position key yields one Block at that position,
\* whose type is the record's type if it has one and "grass" if not, and
\* whose colour is the record's color if it has one and green if not.
C3_RecordsBecomeBlocks == Produced => RecordsBuilt

\* The same of the calls that return: it holds in every reachable state.
RecordsWhenReturned == Returned => RecordsBuilt

\* everything alive, in the registry or in the scene, was created by the
\* last generate_world call
AllOfLastCall ==
    \A e \in scene \cup EntitiesOf(blocks) : e.gen = calls

\* C4: after a second (or later) generate_world call the Blocks alive are
\* exactly those created from the output of that call: every Block of the
\* registry and every entity in the scene was created by it, the scene
\* holds the entities of the registry and nothing else, and there is one
\* Block per well-formed entry (no more than that when the call raised).
C4_NoBlockOfEarlierCallSurvives ==
    (last.op = "generate_world" /\ calls >= 2) =>
        /\ AllOfLastCall
        /\ scene = EntitiesOf(blocks)
        /\ Cardinality(EntitiesOf(blocks)) = Len(blocks)
        /\ Len(blocks) <= WellFormedUpTo(output, Len(output))
        /\ last.exc = "none" => OneBlockPerWellFormedEntry

\* a second call that found 3 Blocks, removed them and created 4 of its own
C4_Witness ==
    /\ last.op = "generate_world" /\ calls = 2 /\ last.exc = "none"
    /\ last.detached = 3
    /\ Len(blocks) = 4

\* C5: no block is ever lost (an entity in the scene belongs to a Block of
\* the registry), and generate_world clears the world before it calls the
\* producer or creates a Block: when it ends, nothing created before the
\* call is alive, and when the producer raised the world is already empty.
C5_ClearedFirstAndNoLostBlock ==
    /\ \A e \in scene : e \in EntitiesOf(blocks)
    /\ last.op = "generate_world" => AllOfLastCall
    /\ (last.op = "generate_world" /\ last.exc = "ProducerError") =>
           (blocks = <<>> /\ scene = {})

\* a producer that raised after the call had removed a world of 3 Blocks
C5_Witness ==
    /\ last.op = "generate_world" /\ last.exc = "ProducerError"
    /\ last.detached = 3

\* the registry is the complete world of the producer output
CompleteWorld ==
    /\ last.exc = "none"
    /\ OneBlockPerWellFormedEntry
    /\ SimplePositionsBuilt
    /\ RecordsBuilt

\* C6: whenever a generate_world call ends, by returning or by raising, the
\* registry is the complete world from before the call or the complete
\* world of the new producer output.
C6_RegistryReplacedAtomically ==
    [][calls' = calls + 1 => (blocks' = blocks \/ CompleteWorld')]_vars

\* C7: after clear_world the registry is empty and the scene holds no
\* entity of a Block, and a get_world_info that follows it reports 0 blocks
\* and no block type.
C7_ClearThenInfoReportsNothing ==
    /\ last.op = "clear_world" => (blocks = <<>> /\ scene = {})
    /\ (last.op = "get_world_info" /\ last.prev = "clear_world") =>
           (last.info.total_blocks = 0 /\ last.info.block_types = <<>>)

\* get_world_info after the clear_world of a world created from 3 tuples
C7_Witness ==
    /\ last.op = "get_world_info" /\ last.prev = "clear_world"
    /\ output = ThreeTuples
    /\ last.info.total_blocks = 0

\* C8: a clear_world that directly follows a clear_world removes no node
\* and leaves the registry and the scene as the first one left them.
C8_ClearIsIdempotent ==
    [][(last.op = "clear_world" /\ last'.op = "clear_world") =>
          (blocks' = blocks /\ scene' = scene /\ last'.detached = 0)]_vars

\* two clear_world calls in a row after a world was created from 3 tuples
C8_Witness ==
    /\ last.op = "clear_world" /\ last.prev = "clear_world"
    /\ output = ThreeTuples
    /\ blocks = <<>> /\ scene = {}

\* C9: get_world_info changes neither the registry nor the scene nor
\* world_size, and returns the number of Blocks of the registry, the fixed
\* world size, and the types of the registry's Blocks, each listed once.
C9_InfoIsPureRead ==
    /\ [](last.op = "get_world_info" =>
            /\ last.info.total_blocks = Len(blocks)
            /\ last.info.world_size = world_size
            /\ world_size = DefaultWorldSize
            /\ Range(last.info.block_types)
                   = {blocks[i].block_type : i \in 1..Len(blocks)}
            /\ \A i, j \in 1..Len(last.info.block_types) :
                   last.info.block_types[i] = last.info.block_types[j] => i = j)
    /\ [][last'.op = "get_world_info" =>
            UNCHANGED <<blocks, scene, world_size>>]_vars

\* get_world_info of a world of 4 Blocks of 2 types
C9_Witness ==
    /\ last.op = "get_world_info"
    /\ last.info.total_blocks = 4
    /\ Len(last.info.block_types) = 2

\* C10: generate_world with no producer returns and leaves world_size *
\* world_size + 20 Blocks, all grass: first one ground Block at y = 0 for
\* every (x, z) of the world_size x world_size square, then 20 Blocks with
\* x and z in 0..world_size-1 and y in 1..3.
C10_DefaultWorld ==
    (last.op = "generate_world" /\ last.arg = "None") =>
        LET n == world_size * world_size
            inside == 0..(world_size - 1)
        IN  /\ last.exc = "none"
            /\ Len(blocks) = n + 20
            /\ \A x, z \in inside :
                   Cardinality({i \in 1..n :
                       blocks[i].position = [x |-> x, y |-> 0, z |-> z]}) = 1
            /\ \A i \in (n + 1)..(n + 20) :
                   /\ blocks[i].position.x \in inside
                   /\ blocks[i].position.z \in inside
                   /\ blocks[i].position.y \in 1..3
            /\ \A i \in 1..Len(blocks) :
                   /\ blocks[i].block_type = "grass"
                   /\ blocks[i].color = "green"
                   /\ blocks[i].entity \in scene
            /\ Cardinality(scene) = n + 20

\* a default world in which two of the 20 extra Blocks are at one position
C10_Witness ==
    /\ last.op = "generate_world" /\ last.arg = "None"
    /\ Len(blocks) = world_size * world_size + 20
    /\ \E i, j \in (world_size * world_size + 1)..Len(blocks) :
           i < j /\ blocks[i].position = blocks[j].position

---------------------------------------------------------------------------
(* The Game Loop. *)

\* the last callback was a tick
Ticked == event.kind = "update"

\* the last callback was input(key)
Pressed(key) == event.kind = "input" /\ event.key = key

\* C11: whatever fails in a tick (the read of the player or of held_keys,
\* the position text, the world text, the FPS text), update() returns
\* without an exception and the frame loop goes on.
C11_NoTickRaises == Ticked => (event.exc = "none" /\ engine.running)

\* What fails inside the try statement of update() is swallowed there: the
\* only exception that leaves update() is the one of the FPS text.
OnlyFpsTextLeavesUpdate ==
    (Ticked /\ event.exc # "none") =>
        (event.exc = "TextError" /\ game.frame_count > 0)

---------------------------------------------------------------------------
(* The Player. *)

\* held_keys is missing (the name is unbound), None, empty, or has no get()
InputUnavailable ==
    \/ engine.held_keys.kind # "dict"
    \/ DOMAIN engine.held_keys.d = {}

\* a read of the last get_movement_info raised inside its try statement:
\* the position, camera.forward, or the unbound name held_keys
ReadFailed ==
    player.fault # "none" \/ engine.held_keys.kind = "unbound"

\* what get_movement_info has returned, when it has just been called
AfterMovementInfo ==
    /\ player.op = "get_movement_info"
    /\ player.exc = "none"
    /\ InputUnavailable =>
          /\ player.info.is_moving = FALSE
          /\ player.info.is_running = FALSE
          /\ player.info.position \in {engine.position, Vec3(<<0, 0, 0>>)}
    /\ ReadFailed =>
          /\ player.info.position = Vec3(<<0, 0, 0>>)
          /\ player.info.is_moving = FALSE
          /\ player.info.is_running = FALSE
          /\ player.info.speed = NormalSpeed

\* C12: get_movement_info never raises; with held_keys missing, None or
\* empty it returns is_moving = False and is_running = False with the
\* controller's position or the zero vector; when a read fails it returns
\* the zero vector, False, False and the normal speed.
C12_MovementInfoNeverRaises ==
    [][(\E fault \in PlayerFaults : get_movement_info(fault))
          => AfterMovementInfo']_vars

\* held_keys is missing while the player runs away from the start: the
\* safe defaults are returned, not the controller's position and speed
C12_Witness ==
    /\ player.op = "get_movement_info"
    /\ engine.held_keys = HeldKeysUnbound
    /\ engine.position # StartPosition
    /\ player.speed = RunSpeed
    /\ player.info = SafeDefaults

\* The state of the Game Loop: Idle until reload_world has assigned
\* current_world, Running from then on
GameLoopState ==
    IF game.current_world = NoAttribute THEN "Idle" ELSE "Running"

\* C13: the Game Loop is Idle or Running; it is Idle as long as
\* reload_world has not been called, Running once it has been, and no tick
\* or key event takes it from Running back to Idle.
C13_IdleUntilFirstReload ==
    /\ [](GameLoopState = "Idle" <=> calls = 0)
    /\ [][GameLoopState = "Running" => GameLoopState' = "Running"]_vars

\* a tick in the Running state, after two reloads
C13_Witness ==
    /\ GameLoopState = "Running"
    /\ Ticked
    /\ calls = 2

\* the Blocks of two registries are the same but for their entities
SameBlocks(bs1, bs2) ==
    /\ Len(bs1) = Len(bs2)
    /\ \A i \in 1..Len(bs1) :
          /\ bs1[i].position = bs2[i].position
          /\ bs1[i].block_type = bs2[i].block_type
          /\ bs1[i].color = bs2[i].color

\* the step has reloaded the world that was loaded: the producer has
\* returned what it returned for that world, the registry holds the same
\* Blocks, created anew, and current_world is what it was
ReloadedSameWorld ==
    /\ event'.exc = "none"
    /\ calls' = calls + 1
    /\ output' = output
    /\ SameBlocks(blocks', blocks)
    /\ EntitiesOf(blocks') \cap EntitiesOf(blocks) = {}
    /\ game'.current_world = game.current_world

\* C14: in every state of the Game Loop, Idle or Running, the key 'r'
\* reloads the world that is loaded with the generator that produced it,
\* and leaves the recorded current world as it is.
C14_ReloadKeepsGenerator == [][input("r") => ReloadedSameWorld]_vars

\* The same in the Running state.
ReloadKeepsGeneratorWhenRunning ==
    [][(GameLoopState = "Running" /\ input("r")) => ReloadedSameWorld]_vars

\* C15: after the key k of '1', '2', '3', '4' the World is the output of
\* the builtin producer k names: flat (100 blocks), pyramid (55),
\* checkerboard (64), and for '4' the default random world
\* (world_size * world_size + 20 blocks).
C15_NumberKeysSelectWorlds ==
    /\ Pressed("1") => (output = flat_world /\ Len(blocks) = 100)
    /\ Pressed("2") => (output = pyramid_world /\ Len(blocks) = 55)
    /\ Pressed("3") => (output = checkerboard_world /\ Len(blocks) = 64)
    /\ Pressed("4") =>
          /\ output \in {simple_random_world(world_size, seed) : seed \in Seeds}
          /\ Len(blocks) = world_size * world_size + RandomBlockCount

\* The same of the keys '1', '2' and '3'; and what '4' loads instead: the
\* flat world, under the name "Flat World (Default)".
NumberKeysOneToThree ==
    /\ Pressed("1") => (output = flat_world /\ Len(blocks) = 100)
    /\ Pressed("2") => (output = pyramid_world /\ Len(blocks) = 55)
    /\ Pressed("3") => (output = checkerboard_world /\ Len(blocks) = 64)
    /\ Pressed("4") =>
          /\ output = flat_world
          /\ Len(blocks) = 100
          /\ game_ui.info_panel = "Flat World (Default)"
          /\ game.current_world = "random"

\* C16: in every state of the game the cube entities in the scene are
\* exactly the entities of the Blocks of the registry.
C16_SceneIsRegistry == scene = EntitiesOf(blocks)

\* What is in the scene besides the registry's entities: the cubes that
\* __init__ has created, in every state; no entity of a world loaded
\* earlier.
SceneIsRegistryAndStartupCubes ==
    /\ scene = StartupCubes \cup EntitiesOf(blocks)
    /\ StartupCubes \cap EntitiesOf(blocks) = {}
    /\ \A e \in EntitiesOf(blocks) : e.gen = calls

---------------------------------------------------------------------------
(* The HUD. *)

\* the engine reports key as held
KeyIsHeld(key) ==
    /\ engine.held_keys.kind = "dict"
    /\ key \in DOMAIN engine.held_keys.d
    /\ engine.held_keys.d[key] # 0

\* the text shows the coordinate: the tenths printed are the nearest to it
ShowsCoordinate(tenths, hundredths) == (10 * tenths - hundredths) \in -5..5

\* the world text shows total_blocks and world_size of the World Builder;
\* the position text shows the player's position, with the running mark
\* when a shift key is held, else the walking mark when one of w, a, s, d
\* is held, else no mark
HudIsCurrent ==
    /\ game_ui.world_info =
          [parts |-> 2, block_count |-> Len(blocks), world_size |-> world_size]
    /\ game_ui.position_text.decimals = 1
    /\ ShowsCoordinate(game_ui.position_text.x, engine.position.x)
    /\ ShowsCoordinate(game_ui.position_text.y, engine.position.y)
    /\ ShowsCoordinate(game_ui.position_text.z, engine.position.z)
    /\ game_ui.position_text.mark =
          IF KeyIsHeld("left shift") \/ KeyIsHeld("right shift") THEN "running"
          ELSE IF \E key \in {"w", "a", "s", "d"} : KeyIsHeld(key) THEN "walking"
          ELSE ""

\* the step is a tick
Tick == \E fault \in Faults : update(fault)

C18_HelpShownAfterOddToggles ==
    /\ [](/\ game_ui.help_text_visible = game_ui.is_help_visible
          /\ game_ui.help_text_visible = event.odd_toggles
          /\ calls = 0 /\ event.kind = "__init__" => ~game_ui.help_text_visible)
    /\ [][(game_ui.help_text_visible' # game_ui.help_text_visible
             \/ game_ui.is_help_visible' # game_ui.is_help_visible)
          => input("h")]_vars

\* the help text is shown during a tick of the Running state
C18_Witness ==
    /\ game_ui.help_text_visible
    /\ game_ui.is_help_visible
    /\ Ticked
    /\ GameLoopState = "Running"

---------------------------------------------------------------------------
(* The World. *)

\* the position an entry of one of the two shapes gives
PositionOf(e) == IF IsTriple(e) THEN Vec3(e.items) ELSE Vec3(e.d.position)

\* the entries of one of the two shapes, in the producer's order
ValidEntries(out) == SelectSeq(out, WellFormed)

\* the registry is the sequence of the Blocks of the valid entries of the
\* output, in their order, a Block for every one of them, also for those
\* of equal position, each with an entity of its own; total_blocks counts
\* them all
WorldIsValidEntries ==
    LET valid == ValidEntries(output)
    IN  /\ Len(blocks) = Len(valid)
        /\ \A k \in 1..Len(blocks) : blocks[k].position = PositionOf(valid[k])
        /\ Cardinality(EntitiesOf(blocks)) = Len(valid)
        /\ WorldInfo(blocks, world_size, AList(BlockTypes(blocks))).total_blocks
              = Len(valid)

\* C20: after generate_world the World is the ordered sequence of the
\* Blocks of the valid entries of the producer's output, without
\* de-duplication: two valid entries of the same position give two Blocks,
\* and total_blocks counts both.
C20_WorldKeepsOrderAndDuplicates == Produced => WorldIsValidEntries

\* The same of the calls that return.
WorldKeepsOrderAndDuplicatesWhenReturned == Returned => WorldIsValidEntries

\* a call has returned a World with two Blocks at the same position
DuplicatePositionsKept ==
    /\ Returned
    /\ WorldIsValidEntries
    /\ \E i, j \in 1..Len(blocks) :
          i < j /\ blocks[i].position = blocks[j].position

\* ---------------------------------------------------------------- C21

\* the i-th message on screen was shown longer ago than its duration
Expired(i) ==
    engine.clock - event.shown_at[i] > MessageDuration * ClockResolution

\* C21: a message shown by show_message is temporary: once its duration has
\* passed it is removed from the screen, so after every tick no message on
\* screen is older than its duration and the messages of successive
\* reload_world calls do not pile up
C21_MessagesAreTemporary ==
    [][Tick => (\A i \in 1..Len(game_ui.messages) : ~Expired(i))']_vars

\* every message Text ever created is still on screen, in the order of the
\* reload_world calls that showed it: no step removes one
MessagesNeverRemoved ==
    /\ Len(game_ui.messages) = Len(event.shown_at)
    /\ [][SubSeq(game_ui.messages', 1, Len(game_ui.messages))
            = game_ui.messages]_vars

\* two reload_world calls later and after the duration of both messages,
\* both are on screen at a tick
MessagesAccumulated ==
    /\ Ticked
    /\ Len(game_ui.messages) = 2
    /\ \A i \in 1..2 : Expired(i)

\* ---------------------------------------------------------------- C22

\* the step is a tick that returns
TickReturns == Tick /\ event'.exc = "none"

\* the step refreshes the FPS text at the time of the tick: it shows the ticks
\* made after tick number start_tick per second of the time since start_clock,
\* and the count starts again
FpsRefreshed(start_tick, start_clock) ==
    /\ game_ui'.fps =
         [measured |-> TRUE,
          value |-> RoundHalfEven(
                        (event'.ticks - start_tick) * ClockResolution,
                        engine.clock - start_clock)]
    /\ game'.frame_count = 0
    /\ game'.last_fps_update = engine.clock

\* the step counts one tick and leaves the FPS text and the refresh time
FpsKept ==
    /\ game'.frame_count = game.frame_count + 1
    /\ game'.last_fps_update = game.last_fps_update
    /\ game_ui'.fps = game_ui.fps

\* C22: the FPS shown is a rolling count of ticks per wall-clock second:
\* every tick counts once; a tick at least one second after the last refresh
\* (after startup, for the first one) shows the ticks made since then divided
\* by the seconds passed since then, and starts the count and the interval
\* again; every other tick leaves the FPS shown as it is
C22_FpsIsTicksPerSecond ==
    [][TickReturns =>
         IF engine.clock - event.since.clock >= ClockResolution
         THEN FpsRefreshed(event.since.tick, event.since.clock)
         ELSE FpsKept]_vars

\* the same with the interval of the first refresh starting at clock 0, the
\* initial last_fps_update, instead of at startup: frame_count is the number
\* of ticks since the last refresh or startup, last_fps_update is the time
\* of the last refresh once there is one, and only a tick changes any of it
FpsIsTicksSinceLastFpsUpdate ==
    /\ [](game.frame_count = event.ticks - event.since.tick)
    /\ [](game_ui.fps.measured => game.last_fps_update = event.since.clock)
    /\ [](~game_ui.fps.measured => game.last_fps_update = 0)
    /\ [][TickReturns =>
            IF engine.clock - game.last_fps_update >= ClockResolution
            THEN FpsRefreshed(event.since.tick, game.last_fps_update)
            ELSE FpsKept]_vars
    /\ [][~Tick => /\ game'.frame_count = game.frame_count
                   /\ game'.last_fps_update = game.last_fps_update
                   /\ game_ui'.fps = game_ui.fps]_vars

\* the first tick of a game refreshes the FPS text whenever it is made, and
\* shows 0
FirstTickShowsZero ==
    [][(TickReturns /\ event.ticks = 0) =>
         game_ui'.fps = [measured |-> TRUE, value |-> 0]]_vars

\* a later refresh: at least two ticks counted over at least one second
SecondRefresh ==
    /\ Ticked
    /\ event.ticks >= 3
    /\ event.since.tick = event.ticks
    /\ game_ui.fps.value >= 2

====
